---- MODULE Spec2Model ----
(***************************************************************************)
(* Model of server.py (Hallersolutions Benchmark API): the loader          *)
(* load_benchmark that builds the module-level table DF at import time,    *)
(* and the request handler berakna with its helpers to_num and             *)
(* estimate_potential_frictionless.                                        *)
(*                                                                         *)
(* Numbers.  A Python float is a record [k, n, d]: k = "fin" is the        *)
(* rational n/d in lowest terms (d > 0), k = "nan", "inf", "ninf" are the  *)
(* IEEE specials, and k = "none" is Python's None where a helper may       *)
(* return it.  Finite arithmetic is exact; the value pools below are       *)
(* chosen so that the IEEE-754 double results of the program coincide with *)
(* the exact ones at every rounding the program performs.                  *)
(*                                                                         *)
(* Strings.  A Python str is a sequence of one-character strings, so that  *)
(* strip(), str() and float() are computed and are not the identity.       *)
(***************************************************************************)
EXTENDS Integers, Sequences, FiniteSets, TLC

\* ------------------------------------------------------------------ floats

Abs(i) == IF i < 0 THEN -i ELSE i

RECURSIVE Gcd(_, _)
Gcd(a, b) == IF b = 0 THEN a ELSE Gcd(b, a % b)

Fin(n, d) ==
    LET g == Gcd(Abs(n), d)
    IN  [k |-> "fin", n |-> n \div g, d |-> d \div g]

NaN  == [k |-> "nan",  n |-> 0, d |-> 1]
Inf  == [k |-> "inf",  n |-> 0, d |-> 1]
NInf == [k |-> "ninf", n |-> 0, d |-> 1]
None == [k |-> "none", n |-> 0, d |-> 1]

IsFin(x) == x.k = "fin"

\* sign of a float that is not NaN: -1, 0 or 1
Sign(x) ==
    CASE x.k = "inf"  -> 1
      [] x.k = "ninf" -> -1
      [] OTHER        -> IF x.n > 0 THEN 1 ELSE IF x.n < 0 THEN -1 ELSE 0

\* a * b on floats
FMul(a, b) ==
    IF a.k = "nan" \/ b.k = "nan" THEN NaN
    ELSE IF IsFin(a) /\ IsFin(b) THEN
        LET g1 == Gcd(Abs(a.n), b.d)
            g2 == Gcd(Abs(b.n), a.d)
        IN  Fin((a.n \div g1) * (b.n \div g2), (a.d \div g2) * (b.d \div g1))
    ELSE LET s == Sign(a) * Sign(b)
         IN  IF s = 0 THEN NaN ELSE IF s > 0 THEN Inf ELSE NInf

\* a / c for a finite non-zero constant c
FDiv(a, c) == FMul(a, Fin(c.d * Sign(c), Abs(c.n)))

\* a + b on finite floats
FAdd(a, b) == Fin(a.n * b.d + b.n * a.d, a.d * b.d)

\* a < b on floats; every comparison with NaN is false
FLess(a, b) ==
    IF a.k = "nan" \/ b.k = "nan" THEN FALSE
    ELSE IF IsFin(a) /\ IsFin(b) THEN a.n * b.d < b.n * a.d
    ELSE IF a.k = b.k THEN FALSE
    ELSE a.k = "ninf" \/ b.k = "inf"

\* Python's max(a, b): a unless b > a.  min(a, b): a unless b < a.
PyMax(a, b) == IF FLess(a, b) THEN b ELSE a
PyMin(a, b) == IF FLess(b, a) THEN b ELSE a

\* the nearest integer of the rational n/d, ties to the even one
HalfEven(n, d) ==
    LET q == n \div d
        r == n - q * d
    IN  IF 2 * r < d THEN q
        ELSE IF 2 * r > d THEN q + 1
        ELSE IF q % 2 = 0 THEN q ELSE q + 1

\* a rounding that takes ties upwards, as a commercial rounding would
HalfUp(n, d) ==
    LET q == n \div d
        r == n - q * d
    IN  IF 2 * r < d THEN q ELSE q + 1

NearestInt(n, d) == HalfEven(n, d)

\* round(x): an int, or an exception for a float that is not finite
\* (OverflowError for an infinity, ValueError for NaN)
RoundInt(x) ==
    CASE x.k = "fin" -> [exc |-> "", v |-> Fin(NearestInt(x.n, x.d), 1)]
      [] x.k = "nan" -> [exc |-> "ValueError", v |-> None]
      [] OTHER       -> [exc |-> "OverflowError", v |-> None]

\* round(x, 1): a float; the specials are returned as they are
Round1(x) ==
    IF IsFin(x) THEN Fin(NearestInt(x.n * 10, x.d), 10) ELSE x

\* ----------------------------------------------------------------- strings

Digits == <<"0", "1", "2", "3", "4", "5", "6", "7", "8", "9">>

IsDigit(c) == \E i \in 1..Len(Digits) : Digits[i] = c

DigitVal(c) == (CHOOSE i \in 1..Len(Digits) : Digits[i] = c) - 1

\* str(i) of an int
RECURSIVE NatToStr(_)
NatToStr(i) ==
    IF i < 10 THEN <<Digits[i + 1]>>
    ELSE NatToStr(i \div 10) \o <<Digits[(i % 10) + 1]>>

IntToStr(i) == IF i < 0 THEN <<"-">> \o NatToStr(-i) ELSE NatToStr(i)

IsSpace(c) == c \in {" ", "\t", "\n"}

RECURSIVE LStrip(_)
LStrip(s) ==
    IF s # <<>> /\ IsSpace(Head(s)) THEN LStrip(Tail(s)) ELSE s

RECURSIVE RStrip(_)
RStrip(s) ==
    IF s # <<>> /\ IsSpace(s[Len(s)]) THEN RStrip(SubSeq(s, 1, Len(s) - 1)) ELSE s

\* s.strip()
Strip(s) == RStrip(LStrip(s))

RECURSIVE DigitsVal(_)
DigitsVal(s) ==
    IF s = <<>> THEN 0 ELSE DigitsVal(SubSeq(s, 1, Len(s) - 1)) * 10 + DigitVal(s[Len(s)])

AllDigits(s) == s # <<>> /\ \A i \in 1..Len(s) : IsDigit(s[i])

\* float(s) of a str: surrounding whitespace is ignored, then an optional
\* sign and either decimal digits or one of the words inf and nan; anything
\* else is a ValueError, reported here as None.  (Decimal points and
\* exponents, which float() also reads, are in none of the pools.)
ParseFloat(s) ==
    LET t    == Strip(s)
        neg  == t # <<>> /\ Head(t) = "-"
        body == IF t # <<>> /\ Head(t) \in {"-", "+"} THEN Tail(t) ELSE t
    IN  IF AllDigits(body) THEN Fin(IF neg THEN -DigitsVal(body) ELSE DigitsVal(body), 1)
        ELSE IF body = <<"i", "n", "f">> THEN (IF neg THEN NInf ELSE Inf)
        ELSE IF body = <<"n", "a", "n">> THEN NaN
        ELSE None

\* ------------------------------------------------------------------ values

\* A value of a request payload or of a cell of a source file: t is its
\* type, s its characters when a str, x its number when an int or a float.
VAbsent   == [t |-> "absent", s |-> <<>>, x |-> None]
VNull     == [t |-> "null",   s |-> <<>>, x |-> None]
VList     == [t |-> "list",   s |-> <<>>, x |-> None]
VStr(s)   == [t |-> "str",    s |-> s,    x |-> None]
VInt(i)   == [t |-> "int",    s |-> <<>>, x |-> Fin(i, 1)]
VFloat(x) == [t |-> "float",  s |-> <<>>, x |-> x]

\* str(v) of a str, an int, None and an empty list
StrOf(v) ==
    CASE v.t = "str"  -> v.s
      [] v.t = "int"  -> IntToStr(v.x.n)
      [] v.t = "null" -> <<"N", "o", "n", "e">>
      [] OTHER        -> <<"[", "]">>

\* float(v): the number, or the exception float() raises
FloatOf(v) ==
    CASE v.t \in {"int", "float"} -> [exc |-> "", v |-> v.x]
      [] v.t = "str" ->
            IF ParseFloat(v.s) = None THEN [exc |-> "ValueError", v |-> None]
            ELSE [exc |-> "", v |-> ParseFloat(v.s)]
      [] OTHER -> [exc |-> "TypeError", v |-> None]

\* --------------------------------------------------------- load_benchmark

\* the candidate files in the order load_benchmark probes them
Candidates ==
    <<"benchmark_master_clean.parquet", "benchmark_master_clean.csv", "benchmark_master.csv">>

Paths == {Candidates[i] : i \in 1..Len(Candidates)}

NoFile == [exists |-> FALSE, columns |-> {}, rows |-> <<>>]

Frame(cols, rows) == [exists |-> TRUE, columns |-> cols, rows |-> rows]

\* rename_map: SCB ContentsCode -> internal name; other columns pass through
RenameColumn(c) ==
    CASE c = "0000028K" -> "antal_foretag"
      [] c = "0000032G" -> "rorelsemarginal_pct"
      [] c = "0000032H" -> "nettomarginal_pct"
      [] c = "0000033Z" -> "personalkostnad_netto_pct"
      [] c = "00000355" -> "personalkostnad_per_anst_tkr"
      [] OTHER          -> c

KeyColumns == {"year", "sni_3", "size_class"}

NumericColumns ==
    {"antal_foretag", "rorelsemarginal_pct", "nettomarginal_pct",
     "personalkostnad_netto_pct", "personalkostnad_per_anst_tkr"}

Required == KeyColumns \cup NumericColumns

\* a loader that would prefer the text files to the parquet file
ChooseSourceTextFirst(files) ==
    LET found == {i \in 1..Len(Candidates) : files[Candidates[i]].exists}
    IN  IF found = {} THEN 0
        ELSE CHOOSE i \in found : \A j \in found : i >= j

\* the if/elif chain: the first candidate that exists, 0 when there is none
ChooseSource(files) ==
    LET found == {i \in 1..Len(Candidates) : files[Candidates[i]].exists}
    IN  IF found = {} THEN 0
        ELSE CHOOSE i \in found : \A j \in found : i <= j

\* df.rename(columns=rename_map)
Rename(f) ==
    LET cols == {RenameColumn(c) : c \in f.columns}
        old(c) == CHOOSE o \in f.columns : RenameColumn(o) = c
    IN  Frame(cols, [i \in 1..Len(f.rows) |-> [c \in cols |-> f.rows[i][old(c)]]])

\* a column copied in under the expected name, only when that name is absent
Fallback(f, target, legacy) ==
    IF target \notin f.columns /\ legacy \in f.columns
    THEN Frame(f.columns \cup {target},
               [i \in 1..Len(f.rows) |->
                   [c \in f.columns \cup {target} |->
                       IF c = target THEN f.rows[i][legacy] ELSE f.rows[i][c]]])
    ELSE f

Harmonize(f) == Fallback(Fallback(Rename(f), "size_class", "Storleksklass"), "year", "Tid")

\* Series.astype(str) of one cell
AsTypeStr(v) ==
    CASE v.t = "str" -> v.s
      [] v.t = "int" -> IntToStr(v.x.n)
      [] OTHER       -> <<"n", "a", "n">>

\* .replace({"001": "0"}) of one cell: whole values only
ReplaceSize(s) == IF s = <<"0", "0", "1">> THEN <<"0">> ELSE s

\* pd.to_numeric(errors="coerce") of one cell
ToNumeric(v) ==
    CASE v.t \in {"int", "float"} -> v.x
      [] v.t = "str" -> IF ParseFloat(v.s) = None THEN NaN ELSE ParseFloat(v.s)
      [] OTHER -> NaN

\* one row with its types normalized; the columns berakna never reads
\* are left out of the model of DF
NormalizeRow(r) ==
    [year       |-> AsTypeStr(r["year"]),
     sni_3      |-> AsTypeStr(r["sni_3"]),
     size_class |-> ReplaceSize(AsTypeStr(r["size_class"])),
     antal_foretag                |-> ToNumeric(r["antal_foretag"]),
     rorelsemarginal_pct          |-> ToNumeric(r["rorelsemarginal_pct"]),
     nettomarginal_pct            |-> ToNumeric(r["nettomarginal_pct"]),
     personalkostnad_netto_pct    |-> ToNumeric(r["personalkostnad_netto_pct"]),
     personalkostnad_per_anst_tkr |-> ToNumeric(r["personalkostnad_per_anst_tkr"])]

\* load_benchmark() over the files present: the exception it raises ("" when
\* none), the candidates it read, and the table it returns
LoadBenchmark(files) ==
    LET src == ChooseSource(files)
    IN  IF src = 0
        THEN [exc |-> "FileNotFoundError", read |-> {}, df |-> <<>>]
        ELSE LET h == Harmonize(files[Candidates[src]])
             IN  IF Required \ h.columns # {}
                 THEN [exc |-> "ValueError", read |-> {Candidates[src]}, df |-> <<>>]
                 ELSE [exc  |-> "",
                       read |-> {Candidates[src]},
                       df   |-> [i \in 1..Len(h.rows) |-> NormalizeRow(h.rows[i])]]

\* ---------------------------------------------------------------- berakna

\* to_num(x): None for None, for what float() refuses and for NaN
to_num(v) ==
    IF v.t \in {"absent", "null"} THEN None
    ELSE LET f == FloatOf(v)
         IN  IF f.exc # "" THEN None
             ELSE IF f.v.k = "nan" THEN None
             ELSE f.v

\* the literals of estimate_potential_frictionless and of berakna
DefaultYear == <<"2", "0", "2", "4">>
Hundred     == Fin(100, 1)
BaseShare   == Fin(30, 100)
BaseMin     == Fin(5, 10)
BaseMax     == Fin(6, 1)
LowFactor   == Fin(75, 100)
HighFactor  == Fin(15, 10)
Zero        == Fin(0, 1)

\* a base gap with the cap left out
BaseGapUncapped(opm) == PyMax(BaseMin, FMul(opm, BaseShare))

\* base = max(0.5, min(6.0, bench_op_margin_pct * 0.30))
BaseGap(opm) == PyMax(BaseMin, PyMin(BaseMax, FMul(opm, BaseShare)))

\* a potential that is not floored at zero
PotentialUnfloored(revenue, gap) == FMul(revenue, FDiv(gap, Hundred))

\* max(0.0, revenue_sek * (v / 100.0))
Potential(revenue, gap) == PyMax(Zero, FMul(revenue, FDiv(gap, Hundred)))

estimate_potential_frictionless(revenue, opm) ==
    LET base == BaseGap(opm)
        gaps == [low |-> FMul(base, LowFactor), mid |-> base, high |-> FMul(base, HighFactor)]
    IN  [base |-> base,
         gaps |-> gaps,
         pot  |-> [t \in {"low", "mid", "high"} |-> Potential(revenue, gaps[t])]]

\* lines 113-116: the query read from the payload
Query(p) ==
    [year       |-> IF p.year.t = "absent" THEN DefaultYear ELSE StrOf(p.year),
     sni_3      |-> Strip(IF p.sni_3.t = "absent" THEN <<>> ELSE StrOf(p.sni_3)),
     size_class |-> Strip(IF p.size_class.t = "absent" THEN <<>> ELSE StrOf(p.size_class)),
     revenue    |-> to_num(p.revenue)]

\* line 118: not sni_3 or not size_class or revenue is None
Rejected(q) == q.sni_3 = <<>> \/ q.size_class = <<>> \/ q.revenue = None

\* a filter that would fall back to the other years of the segment
MatchesAnyYear(r, q) == r.sni_3 = q.sni_3 /\ r.size_class = q.size_class

\* lines 122-124: the row mask
Matches(r, q) == r.year = q.year /\ r.sni_3 = q.sni_3 /\ r.size_class = q.size_class

\* lines 121-125: the matched rows, a copy
Filter(df, q) == SelectSeq(df, LAMBDA r : Matches(r, q))

\* the values of a sequence in ascending order
RECURSIVE Insert(_, _)
Insert(x, s) ==
    IF s = <<>> THEN <<x>>
    ELSE IF FLess(Head(s), x) THEN <<Head(s)>> \o Insert(x, Tail(s))
    ELSE <<x>> \o s

RECURSIVE Sorted(_)
Sorted(s) == IF s = <<>> THEN <<>> ELSE Insert(Head(s), Sorted(Tail(s)))

\* a median that would take the lower of the two middle values
MedianLower(vals) ==
    LET v == Sorted(SelectSeq(vals, LAMBDA x : x.k # "nan"))
        n == Len(v)
    IN  IF n = 0 THEN NaN ELSE v[(n + 1) \div 2]

\* Series.median() with skipna: NaN of no values, else the middle value or
\* the mean of the two middle values
Median(vals) ==
    LET v == Sorted(SelectSeq(vals, LAMBDA x : x.k # "nan"))
        n == Len(v)
    IN  IF n = 0 THEN NaN
        ELSE IF n % 2 = 1 THEN v[(n + 1) \div 2]
        ELSE FDiv(FAdd(v[n \div 2], v[n \div 2 + 1]), Fin(2, 1))

Column(sub, c) == [i \in 1..Len(sub) |-> sub[i][c]]

\* lines 131-137: bench = sub.median(numeric_only=True), read through to_num
Bench(sub) == [c \in NumericColumns |-> to_num(VFloat(Median(Column(sub, c))))]

NoBench == [c \in NumericColumns |-> None]

OutputFields ==
    {"antal_foretag", "rorelsemarginal_pct", "nettomarginal_pct",
     "personalkostnad_netto_pct", "personalkostnad_per_anst_tkr",
     "median_ebit_kr", "median_personal_kr", "gap_low_pp", "gap_high_pp",
     "potential_low_kr", "potential_mid_kr", "potential_high_kr"}

NoBody == [f \in OutputFields |-> None]

NoEstimate == [base |-> None, gaps |-> [t \in {"low", "mid", "high"} |-> None],
               pot |-> [t \in {"low", "mid", "high"} |-> None]]

MsgMissing    == "Missing required fields: sni_3, size_class, revenue (and optional year)"
MsgNotFound   == "No benchmark for year={year}, sni_3={sni_3}, size_class={size_class}"
MsgIncomplete == "Benchmark data incomplete for selected segment."

\* how a call of berakna ends: kind "ok" with the record body, kind "error"
\* with {error: text} (args are the values formatted into the text), or kind
\* "raise" with the exception that leaves berakna
Ok(body)          == [kind |-> "ok",    text |-> "",   args |-> <<>>, exc |-> "",  body |-> body]
Error(text, args) == [kind |-> "error", text |-> text, args |-> args, exc |-> "",  body |-> NoBody]
Raise(exc)        == [kind |-> "raise", text |-> "",   args |-> <<>>, exc |-> exc, body |-> NoBody]
NoResponse        == [kind |-> "none",  text |-> "",   args |-> <<>>, exc |-> "",  body |-> NoBody]

\* int(round(x)) if x is not None else None
RoundOpt(x) == IF x = None THEN [exc |-> "", v |-> None] ELSE RoundInt(x)

\* lines 142-164: the amounts, the estimate and the returned dict, whose
\* values are evaluated in the order they are written
Respond(revenue, bench) ==
    LET opm       == bench["rorelsemarginal_pct"]
        staff_pct == bench["personalkostnad_netto_pct"]
        est       == estimate_potential_frictionless(revenue, opm)
        rounded   ==
            <<RoundOpt(bench["antal_foretag"]),
              RoundOpt(bench["personalkostnad_per_anst_tkr"]),
              RoundInt(FMul(revenue, FDiv(opm, Hundred))),
              RoundInt(FMul(revenue, FDiv(staff_pct, Hundred))),
              RoundInt(est.pot["low"]),
              RoundInt(est.pot["mid"]),
              RoundInt(est.pot["high"])>>
        failed    == {i \in 1..Len(rounded) : rounded[i].exc # ""}
    IN  IF failed # {}
        THEN Raise(rounded[CHOOSE i \in failed : \A j \in failed : i <= j].exc)
        ELSE Ok([antal_foretag                |-> rounded[1].v,
                 rorelsemarginal_pct          |-> Round1(opm),
                 nettomarginal_pct            |-> Round1(bench["nettomarginal_pct"]),
                 personalkostnad_netto_pct    |-> Round1(staff_pct),
                 personalkostnad_per_anst_tkr |-> rounded[2].v,
                 median_ebit_kr               |-> rounded[3].v,
                 median_personal_kr           |-> rounded[4].v,
                 gap_low_pp                   |-> Round1(est.gaps["low"]),
                 gap_high_pp                  |-> Round1(est.gaps["high"]),
                 potential_low_kr             |-> rounded[5].v,
                 potential_mid_kr             |-> rounded[6].v,
                 potential_high_kr            |-> rounded[7].v])

\* lines 121-164 for a query that passed line 118, against the table df:
\* the response and the locals the call computed on its way
Lookup(df, q) ==
    LET sub   == Filter(df, q)
        bench == Bench(sub)
    IN  IF sub = <<>>
        THEN [resp  |-> Error(MsgNotFound, <<q.year, q.sni_3, q.size_class>>),
              sub   |-> sub, bench |-> NoBench, est |-> NoEstimate]
        ELSE IF \/ bench["rorelsemarginal_pct"] = None
                \/ bench["nettomarginal_pct"] = None
                \/ bench["personalkostnad_netto_pct"] = None
        THEN [resp  |-> Error(MsgIncomplete, <<>>),
              sub   |-> sub, bench |-> bench, est |-> NoEstimate]
        ELSE [resp  |-> Respond(q.revenue, bench),
              sub   |-> sub, bench |-> bench,
              est   |-> estimate_potential_frictionless(q.revenue, bench["rorelsemarginal_pct"])]

\* ------------------------------------------------------------------ bounds

\* the most rows a generated source file holds
MaxRows == 3

\* the worker threads that serve requests at the same time
NClients == 2

\* ------------------------------------------------------------------- pools

S2024 == <<"2", "0", "2", "4">>
S2023 == <<"2", "0", "2", "3">>
S432  == <<"4", "3", "2">>
S433  == <<"4", "3", "3">>
S59   == <<"5", "-", "9">>
S1019 == <<"1", "0", "-", "1", "9">>
S001  == <<"0", "0", "1">>
S0    == <<"0">>
SDots == <<".", ".">>

RawRow(year, sni, size, antal, opm, npm, staff, per) ==
    [c \in Required |->
        CASE c = "year"                      -> year
          [] c = "sni_3"                     -> sni
          [] c = "size_class"                -> size
          [] c = "antal_foretag"             -> antal
          [] c = "rorelsemarginal_pct"       -> opm
          [] c = "nettomarginal_pct"         -> npm
          [] c = "personalkostnad_netto_pct" -> staff
          [] OTHER                           -> per]

\* the rows a source file is made of, as its reader delivers them.  The
\* row whose operating margin is 6 has no net margin: 6 * 0.30 is not 1.8 in
\* double arithmetic, and a segment whose median margin is 6 alone would be
\* rounded differently by the program than by exact arithmetic.
RowPool ==
    <<RawRow(VStr(S2024), VStr(S432), VStr(S59), VStr(SDots), VFloat(Fin(10, 1)), VFloat(Fin(5, 1)), VFloat(Fin(20, 1)), VNull),
      RawRow(VInt(2024), VInt(432), VStr(S1019), VInt(120), VInt(4), VInt(3), VInt(30), VInt(450)),
      RawRow(VInt(2024), VInt(432), VStr(S1019), VInt(81), VInt(6), VStr(SDots), VInt(25), VInt(500)),
      RawRow(VStr(S2024), VStr(S432), VStr(S001), VInt(40), VInt(2), VInt(1), VInt(40), VInt(400)),
      RawRow(VStr(S2024), VStr(S432), VStr(S0), VInt(50), VInt(5), VInt(2), VInt(35), VStr(SDots)),
      RawRow(VStr(S2024), VStr(S432), VStr(S0), VInt(60), VInt(8), VInt(6), VInt(30), VInt(420)),
      RawRow(VInt(2023), VInt(432), VStr(S59), VInt(7), VInt(-1000), VInt(-1200), VInt(150), VInt(300)),
      RawRow(VInt(2023), VInt(432), VStr(S59), VInt(9), VInt(1000), VInt(800), VInt(10), VInt(600)),
      RawRow(VStr(S2024), VStr(S432), VStr(S59), VInt(100), VStr(SDots), VInt(3), VInt(30), VInt(450))>>

\* the ascending index sequences of at most n rows of the pool
RECURSIVE Picks(_, _)
Picks(from, n) ==
    IF n = 0 \/ from > Len(RowPool) THEN {<<>>}
    ELSE Picks(from + 1, n) \cup {<<from>> \o t : t \in Picks(from + 1, n - 1)}

\* the source files with the internal column names: any rows of the pool,
\* at most MaxRows of them, in the pool's order
Tables ==
    {Frame(Required, [i \in 1..Len(ix) |-> RowPool[ix[i]]]) : ix \in Picks(1, MaxRows)}

OnlyFile(path, f) == [c \in Paths |-> IF c = path THEN f ELSE NoFile]

\* a raw SCB export of the rows: ContentsCode columns, Storleksklass and Tid
CodedColumns ==
    {"Tid", "sni_3", "Storleksklass", "0000028K", "0000032G", "0000032H", "0000033Z", "00000355"}

InternalName(c) ==
    CASE c = "Tid" -> "year" [] c = "Storleksklass" -> "size_class" [] OTHER -> RenameColumn(c)

Coded(rows) ==
    Frame(CodedColumns, [i \in 1..Len(rows) |-> [c \in CodedColumns |-> rows[i][InternalName(c)]]])

\* a file with the internal columns and a legacy Storleksklass column too
WithLegacy(rows) ==
    Frame(Required \cup {"Storleksklass"},
          [i \in 1..Len(rows) |->
              [c \in Required \cup {"Storleksklass"} |->
                  IF c = "Storleksklass" THEN VStr(S0) ELSE rows[i][c]]])

\* a file without the sni_3 column
WithoutSni(rows) ==
    Frame(Required \ {"sni_3"},
          [i \in 1..Len(rows) |-> [c \in Required \ {"sni_3"} |-> rows[i][c]]])

EndToEndFile == Frame(Required, <<RowPool[1]>>)

SmallFiles ==
    {NoFile,
     EndToEndFile,
     Coded(<<RowPool[4], RowPool[7]>>),
     WithLegacy(<<RowPool[2], RowPool[3]>>),
     WithoutSni(<<RowPool[1]>>)}

Payload(year, sni, size, revenue) ==
    [year |-> year, sni_3 |-> sni, size_class |-> size, revenue |-> revenue]

NoPayload == Payload(VAbsent, VAbsent, VAbsent, VAbsent)

\* well-formed and nearly well-formed requests against the generated tables
LookupTraffic ==
    {Payload(y, s, z, r) :
        y \in {VAbsent, VStr(S2024), VInt(2023)},
        s \in {VInt(432), VStr(<<" ">> \o S432 \o <<" ">>), VStr(S433)},
        z \in {VStr(S59), VStr(S1019), VStr(S001), VStr(S0)},
        r \in {VInt(5000000), VInt(0), VInt(-1000000), VFloat(Inf), VStr(<<"1">>)}}

\* requests with fields missing, empty, blank or of the wrong type
ValidationTraffic ==
    {Payload(y, s, z, r) :
        y \in {VAbsent, VNull},
        s \in {VAbsent, VNull, VStr(<<>>), VStr(<<" ", "\t">>), VStr(S432)},
        z \in {VAbsent, VStr(<<" ">>), VStr(S59), VStr(S001)},
        r \in {VAbsent, VNull, VList, VStr(<<>>), VStr(<<"a", "b", "c">>),
               VFloat(NaN), VStr(<<"n", "a", "n">>), VFloat(Inf), VFloat(NInf),
               VStr(<<"-", "i", "n", "f">>), VInt(5000000),
               VStr(<<" ", "5", "0", "0", "0", "0", "0", "0", " ">>)}}

EndToEndPayload == Payload(VStr(S2024), VStr(S432), VStr(S59), VInt(5000000))

SmallTraffic ==
    {EndToEndPayload,
     Payload(VAbsent, VStr(S432), VStr(S0), VInt(1000000)),
     Payload(VInt(2023), VInt(432), VStr(S59), VInt(-1000000)),
     Payload(VAbsent, VAbsent, VStr(S59), VInt(5000000))}

\* the payloads of a workload
TrafficOf(w) ==
    CASE w = "lookup"     -> LookupTraffic
      [] w = "validation" -> ValidationTraffic
      [] OTHER            -> SmallTraffic

\* ----------------------------------------------------------- state machine

VARIABLES
    fs,         \* the files beside server.py: candidate path -> file or NoFile
    phase,      \* "boot" before the import, then "serving" or "crashed"
    loadExc,    \* the exception load_benchmark raised, "" when none
    filesRead,  \* the candidate files load_benchmark has read
    DF,         \* the module-level table
    clients,    \* the worker threads
    traffic,    \* the workload callers send: "lookup", "small" or "validation"
    req         \* per worker thread: the call of berakna it is in

vars == <<fs, phase, loadExc, filesRead, DF, clients, traffic, req>>

NoQuery == [year |-> <<>>, sni_3 |-> <<>>, size_class |-> <<>>, revenue |-> None]

Idle ==
    [pc |-> "idle", payload |-> NoPayload, q |-> NoQuery, resp |-> NoResponse,
     sub |-> <<>>, bench |-> NoBench, est |-> NoEstimate]

Boot(files, cl, tr) ==
    /\ fs = files
    /\ phase = "boot"
    /\ loadExc = ""
    /\ filesRead = {}
    /\ DF = <<>>
    /\ clients = cl
    /\ traffic = tr
    /\ req = [c \in cl |-> Idle]

\* one worker; a generated table under lookups, every combination of the
\* small files under a few requests, or one table under malformed requests
Init ==
    \/ \E f \in Tables : Boot(OnlyFile(Candidates[1], f), {1}, "lookup")
    \/ \E files \in [Paths -> SmallFiles] : Boot(files, {1}, "small")
    \/ Boot(OnlyFile(Candidates[2], EndToEndFile), {1}, "validation")

\* several workers over a few tables and requests
InitConc ==
    \E f \in {EndToEndFile, Frame(Required, <<RowPool[2], RowPool[3], RowPool[5]>>)} :
        Boot(OnlyFile(Candidates[3], f), 1..NClients, "small")

\* line 72: DF = load_benchmark(), once, at import
load_benchmark ==
    /\ phase = "boot"
    /\ LET r == LoadBenchmark(fs)
       IN  /\ phase' = IF r.exc = "" THEN "serving" ELSE "crashed"
           /\ loadExc' = r.exc
           /\ filesRead' = r.read
           /\ DF' = r.df
    /\ UNCHANGED <<fs, clients, traffic, req>>

\* lines 113-119: a call of berakna reads its payload and validates it
berakna_validate(c, p) ==
    /\ phase = "serving"
    /\ req[c].pc = "idle"
    /\ LET q == Query(p)
       IN  req' = [req EXCEPT ![c] =
                IF Rejected(q)
                THEN [Idle EXCEPT !.pc = "done", !.payload = p, !.q = q,
                                  !.resp = Error(MsgMissing, <<>>)]
                ELSE [Idle EXCEPT !.pc = "lookup", !.payload = p, !.q = q]]
    /\ UNCHANGED <<fs, phase, loadExc, filesRead, DF, clients, traffic>>

\* a lookup that would keep the filtered rows as the table
berakna_lookup_inplace(c) ==
    /\ req[c].pc = "lookup"
    /\ LET r == Lookup(DF, req[c].q)
       IN  /\ req' = [req EXCEPT ![c] =
                [@ EXCEPT !.pc = "done", !.resp = r.resp, !.sub = r.sub,
                          !.bench = r.bench, !.est = r.est]]
           /\ DF' = r.sub
    /\ UNCHANGED <<fs, phase, loadExc, filesRead, clients, traffic>>

\* lines 121-164: the call reads DF, computes and ends
berakna_lookup(c) ==
    /\ req[c].pc = "lookup"
    /\ LET r == Lookup(DF, req[c].q)
       IN  req' = [req EXCEPT ![c] =
                [@ EXCEPT !.pc = "done", !.resp = r.resp, !.sub = r.sub,
                          !.bench = r.bench, !.est = r.est]]
    /\ UNCHANGED <<fs, phase, loadExc, filesRead, DF, clients, traffic>>

\* the response (or the exception) is handed to the framework; the worker
\* is free for the next request
berakna_return(c) ==
    /\ req[c].pc = "done"
    /\ req' = [req EXCEPT ![c] = Idle]
    /\ UNCHANGED <<fs, phase, loadExc, filesRead, DF, clients, traffic>>

Next ==
    \/ load_benchmark
    \/ \E c \in clients : \E p \in TrafficOf(traffic) : berakna_validate(c, p)
    \/ \E c \in clients : berakna_lookup(c)
    \/ \E c \in clients : berakna_return(c)

Spec == Init /\ [][Next]_vars

SpecConc == InitConc /\ [][Next]_vars

\* ------------------------------------------------------------------ claims

Done(c) == req[c].pc = "done"

Succeeded(c) == Done(c) /\ req[c].resp.kind = "ok"

ValidationError == Error(MsgMissing, <<>>)

\* a <= b on finite floats
FLeq(a, b) == a.n * b.d <= b.n * a.d

\* C1: berakna never raises to its caller: every call ends with the success
\* record or with a record {error: message}, whatever the payload and table.
C1_NeverRaises ==
    \A c \in clients : Done(c) => req[c].resp.kind \in {"ok", "error"}

\* a field of the payload that is missing or empty after trimming
Blank(v) ==
    \/ v.t = "absent"
    \/ v.t = "str" /\ \A i \in 1..Len(v.s) : IsSpace(v.s[i])

\* a revenue that is missing, not numeric, NaN or not a finite number
NoFiniteNumber(v) ==
    \/ v.t \in {"absent", "null", "list"}
    \/ v.t \in {"int", "float"} /\ ~IsFin(v.x)
    \/ v.t = "str" /\ ~IsFin(ParseFloat(v.s))

Invalid(p) == Blank(p.sni_3) \/ Blank(p.size_class) \/ NoFiniteNumber(p.revenue)

\* C2: a call whose sni_3 or size_class is missing or blank, or whose revenue
\* is missing, not numeric, NaN or not finite, ends with exactly the
\* validation error, with no output field and without reaching the lookup;
\* a call with all three in order never ends with the validation error.
C2_Validation ==
    \A c \in clients :
        req[c].pc # "idle" =>
            IF Invalid(req[c].payload)
            THEN Done(c) /\ req[c].resp = ValidationError /\ req[c].sub = <<>>
            ELSE req[c].resp # ValidationError

\* C3: a request with size_class "001" selects the same rows and gets the
\* same response as the otherwise identical request with size_class "0".
C3_SizeClassNormalized ==
    \A c \in clients :
        Done(c) /\ req[c].q.size_class = S001 /\ req[c].resp # ValidationError =>
            LET r == Lookup(DF, [req[c].q EXCEPT !.size_class = S0])
            IN  /\ req[c].sub = r.sub
                /\ r.sub # <<>> => req[c].resp = r.resp

\* the table of the end-to-end example: one row, no company count and no
\* staff cost per employee
EndToEndTable ==
    <<[year |-> S2024, sni_3 |-> S432, size_class |-> S59,
       antal_foretag |-> NaN, rorelsemarginal_pct |-> Fin(10, 1),
       nettomarginal_pct |-> Fin(5, 1), personalkostnad_netto_pct |-> Fin(20, 1),
       personalkostnad_per_anst_tkr |-> NaN]>>

EndToEnd(c) == Done(c) /\ DF = EndToEndTable /\ req[c].payload = EndToEndPayload

\* C4 as stated: the end-to-end example answers gap_low_pp = 2.3,
\* gap_high_pp = 4.5, potential_low_kr = 112500, potential_high_kr = 225000
\* and median_ebit_kr = 500000.
C4_EndToEnd_AsStated ==
    \A c \in clients :
        EndToEnd(c) =>
            /\ req[c].resp.kind = "ok"
            /\ req[c].resp.body["gap_low_pp"] = Fin(23, 10)
            /\ req[c].resp.body["gap_high_pp"] = Fin(45, 10)
            /\ req[c].resp.body["potential_low_kr"] = Fin(112500, 1)
            /\ req[c].resp.body["potential_high_kr"] = Fin(225000, 1)
            /\ req[c].resp.body["median_ebit_kr"] = Fin(500000, 1)

\* r is x rounded to a multiple of 1/scale: a multiple, at most half a step away
RoundedTo(r, x, scale) ==
    /\ IsFin(r)
    /\ scale % r.d = 0
    /\ 2 * Abs(r.n * x.d * scale - x.n * r.d * scale) <= r.d * x.d

\* C4, amended: the end-to-end example answers gap_low_pp = 2.2 (the tie 2.25
\* goes to the even digit), gap_high_pp = 4.5, potential_low_kr = 112500,
\* potential_high_kr = 225000 and median_ebit_kr = 500000; and every emitted
\* gap is the base times its tier factor rounded to 1 decimal, every emitted
\* amount is rounded to the nearest integer.
C4_EndToEnd ==
    \A c \in clients :
        /\ EndToEnd(c) =>
            /\ req[c].resp.kind = "ok"
            /\ req[c].resp.body["gap_low_pp"] = Fin(22, 10)
            /\ req[c].resp.body["gap_high_pp"] = Fin(45, 10)
            /\ req[c].resp.body["potential_low_kr"] = Fin(112500, 1)
            /\ req[c].resp.body["potential_high_kr"] = Fin(225000, 1)
            /\ req[c].resp.body["median_ebit_kr"] = Fin(500000, 1)
        /\ Succeeded(c) =>
            LET b    == req[c].resp.body
                base == req[c].est.base
                rev  == req[c].q.revenue
                opm  == req[c].bench["rorelsemarginal_pct"]
                sp   == req[c].bench["personalkostnad_netto_pct"]
                pct(x) == Fin(x.n, x.d * 100)
                amount(share) ==
                    IF rev.n * share.n < 0 THEN Zero
                    ELSE Fin(rev.n * pct(share).n, rev.d * pct(share).d)
            IN  /\ RoundedTo(b["gap_low_pp"], Fin(base.n * 3, base.d * 4), 10)
                /\ RoundedTo(b["gap_high_pp"], Fin(base.n * 3, base.d * 2), 10)
                /\ RoundedTo(b["potential_low_kr"], amount(Fin(base.n * 3, base.d * 4)), 1)
                /\ RoundedTo(b["potential_mid_kr"], amount(base), 1)
                /\ RoundedTo(b["potential_high_kr"], amount(Fin(base.n * 3, base.d * 2)), 1)
                /\ RoundedTo(b["median_ebit_kr"], Fin(rev.n * pct(opm).n, rev.d * pct(opm).d), 1)
                /\ RoundedTo(b["median_personal_kr"], Fin(rev.n * pct(sp).n, rev.d * pct(sp).d), 1)

C4_Witness ==
    \E c \in clients :
        EndToEnd(c) /\ Succeeded(c) /\ req[c].resp.body["gap_low_pp"] = Fin(22, 10)

\* C5: the base gap is clamp(operating margin * 0.30, 0.5, 6.0): it lies in
\* [0.5, 6.0] for every benchmark margin, whatever the revenue.
C5_BaseClamped ==
    \A c \in clients :
        Done(c) /\ req[c].est # NoEstimate =>
            LET opm  == req[c].bench["rorelsemarginal_pct"]
                x    == Fin(opm.n * 3, opm.d * 10)
                base == req[c].est.base
            IN  /\ IsFin(base)
                /\ FLeq(Fin(1, 2), base) /\ FLeq(base, Fin(6, 1))
                /\ ~FLeq(Fin(1, 2), x) => base = Fin(1, 2)
                /\ ~FLeq(x, Fin(6, 1)) => base = Fin(6, 1)
                /\ FLeq(Fin(1, 2), x) /\ FLeq(x, Fin(6, 1)) => base = x

C5_Witness ==
    \E c \in clients :
        /\ Done(c)
        /\ req[c].bench["rorelsemarginal_pct"] = Fin(1000, 1)
        /\ req[c].est.base = Fin(6, 1)

\* C6: in every successful response the tiers are ordered, gap_low_pp <=
\* gap_high_pp and potential_low_kr <= potential_mid_kr <= potential_high_kr,
\* and no potential is negative, also for a zero or negative revenue.
C6_TiersOrdered ==
    \A c \in clients :
        Succeeded(c) =>
            LET b == req[c].resp.body
            IN  /\ \A f \in {"gap_low_pp", "gap_high_pp", "potential_low_kr",
                             "potential_mid_kr", "potential_high_kr"} : IsFin(b[f])
                /\ FLeq(b["gap_low_pp"], b["gap_high_pp"])
                /\ FLeq(b["potential_low_kr"], b["potential_mid_kr"])
                /\ FLeq(b["potential_mid_kr"], b["potential_high_kr"])
                /\ FLeq(Zero, b["potential_low_kr"])
                /\ FLeq(Zero, b["potential_mid_kr"])
                /\ FLeq(Zero, b["potential_high_kr"])

C6_Witness ==
    \E c \in clients :
        /\ Succeeded(c)
        /\ req[c].q.revenue.n < 0
        /\ req[c].resp.body["potential_high_kr"] = Zero

\* the rows of the table equal to the query on all three keys
MatchedRows(c) ==
    {i \in 1..Len(DF) :
        /\ DF[i].year = req[c].q.year
        /\ DF[i].sni_3 = req[c].q.sni_3
        /\ DF[i].size_class = req[c].q.size_class}

\* the values of column col in the matched rows that are not null
Values(c, col) == {i \in MatchedRows(c) : DF[i][col].k # "nan"}

\* x is the k-th smallest of the values of col
KthSmallest(c, col, k, x) ==
    /\ \E i \in Values(c, col) : DF[i][col] = x
    /\ Cardinality({i \in Values(c, col) : ~FLeq(x, DF[i][col])}) < k
    /\ Cardinality({i \in Values(c, col) : FLeq(DF[i][col], x)}) >= k

\* m is the standard median of the values of col
StandardMedian(c, col, m) ==
    LET n == Cardinality(Values(c, col))
    IN  IF n = 0 THEN m = None
        ELSE IF n % 2 = 1 THEN KthSmallest(c, col, (n + 1) \div 2, m)
        ELSE /\ IsFin(m)
             /\ \E i, j \in Values(c, col) :
                    /\ KthSmallest(c, col, n \div 2, DF[i][col])
                    /\ KthSmallest(c, col, n \div 2 + 1, DF[j][col])
                    /\ m = Fin(DF[i][col].n * DF[j][col].d + DF[j][col].n * DF[i][col].d,
                               2 * DF[i][col].d * DF[j][col].d)

\* C7: when rows match, each of the five benchmark values berakna uses is the
\* standard median of its column over exactly the matched rows, nulls left
\* out: the middle value, the mean of the two middle values, or null when
\* every matched value is null.
C7_Median ==
    \A c \in clients :
        Done(c) /\ MatchedRows(c) # {} /\ req[c].resp # ValidationError =>
            \A col \in NumericColumns : StandardMedian(c, col, req[c].bench[col])

C7_Witness ==
    \E c \in clients :
        /\ Succeeded(c)
        /\ {DF[i]["rorelsemarginal_pct"] : i \in MatchedRows(c)} = {Fin(4, 1), Fin(6, 1)}
        /\ req[c].bench["rorelsemarginal_pct"] = Fin(5, 1)

\* C8: a validated query ends with the not-found error naming year, sni_3
\* and size_class exactly when no row of the table equals the query on all
\* three keys, and a success is computed from the rows equal on all three.
C8_ExactMatch ==
    \A c \in clients :
        Done(c) /\ req[c].resp # ValidationError =>
            /\ req[c].resp =
                    Error(MsgNotFound, <<req[c].q.year, req[c].q.sni_3, req[c].q.size_class>>)
               <=> MatchedRows(c) = {}
            /\ Len(req[c].sub) = Cardinality(MatchedRows(c))
            /\ \A i \in 1..Len(req[c].sub) :
                    \E j \in MatchedRows(c) : req[c].sub[i] = DF[j]

C8_Witness ==
    \E c \in clients :
        /\ Done(c)
        /\ req[c].resp.text = MsgNotFound
        /\ \E i \in 1..Len(DF) :
                /\ DF[i].sni_3 = req[c].q.sni_3
                /\ DF[i].size_class = req[c].q.size_class
                /\ DF[i].year # req[c].q.year

\* the response a payload gets as the only request against the loaded table
Alone(p) ==
    IF Rejected(Query(p)) THEN ValidationError
    ELSE Lookup(LoadBenchmark(fs).df, Query(p)).resp

\* C9: requests never change the table: while serving, DF is the table
\* load_benchmark returned, and under any interleaving every response is the
\* one its query would get as the only request ever made.
C9_TableReadOnly ==
    phase = "serving" =>
        /\ DF = LoadBenchmark(fs).df
        /\ \A c \in clients : Done(c) => req[c].resp = Alone(req[c].payload)

C9_Witness ==
    \E c, d \in clients :
        /\ c # d
        /\ Succeeded(c)
        /\ Done(d) /\ req[d].resp.text = MsgNotFound
        /\ DF # <<>>

\* C10: load_benchmark builds the table from exactly the first of the three
\* candidates that exists, whatever the others hold; when none exists it
\* fails, no table is produced and no request is ever served.
C10_SourceSelection ==
    phase # "boot" =>
        LET found == {i \in 1..Len(Candidates) : fs[Candidates[i]].exists}
        IN  IF found = {}
            THEN /\ phase = "crashed"
                 /\ loadExc = "FileNotFoundError"
                 /\ filesRead = {}
                 /\ DF = <<>>
                 /\ \A c \in clients : req[c] = Idle
            ELSE \E i \in found :
                    /\ \A j \in found : i <= j
                    /\ filesRead = {Candidates[i]}
                    /\ loadExc # "FileNotFoundError"
                    /\ phase = "serving" =>
                         DF = LoadBenchmark(OnlyFile(Candidates[i], fs[Candidates[i]])).df
                    /\ phase = "crashed" => \A c \in clients : req[c] = Idle

C10_Witness ==
    /\ phase = "serving"
    /\ ~fs[Candidates[1]].exists
    /\ fs[Candidates[2]].exists /\ fs[Candidates[3]].exists
    /\ fs[Candidates[2]] # fs[Candidates[3]]
    /\ filesRead = {Candidates[2]}
    /\ \E c \in clients : Succeeded(c)

====
